---- MODULE Spec2Model ----
(***************************************************************************)
(* State-machine model of src/src/face/facemesh.ts: the module-level box   *)
(* cache, the frame/time skip policy of predict() and the model cache of   *)
(* load().                                                                 *)
(*                                                                         *)
(* predict() and load() are async functions.  Every action below is one    *)
(* synchronous run of the code, from one await to the next one, so the     *)
(* interleavings of the model are those the JavaScript event loop allows.  *)
(*                                                                         *)
(* Numbers: confidences are fixed-point.  A raw score (a float in the      *)
(* source) is an integer number of thousandths, a rounded score            *)
(* (Math.round(100 * x) / 100) an integer number of hundredths.            *)
(* Geometry (startPoint, endPoint, landmarks) is computed by               *)
(* facemeshutil, which is not part of this file: a box is represented by   *)
(* where it came from (detector or mesh) and by the face it frames.        *)
(***************************************************************************)
EXTENDS Integers, Sequences, FiniteSets, TLC

VARIABLES
  boxCache,       \* line 22: the cached boxes
  model,          \* line 23: the mesh model, NullModel when not loaded
  inputSize,      \* line 24
  skipped,        \* line 25: frames skipped since the detector last ran
  lastTime,       \* line 26: now() of the last detector run
  clock,          \* what now() returns
  config,         \* the configuration the caller passes to predict and load
  inv,            \* the invocations of predict, by caller
  ld,             \* the invocation of load
  sinceDetector   \* history: predict calls that skipped the detector since it was last invoked

vars == <<boxCache, model, inputSize, skipped, lastTime, clock, config, inv, ld, sinceDetector>>

----------------------------------------------------------------------------
(* Bounds of the model *)

MaxTime == 2        \* now() ranges over 0..MaxTime
MaxSkip == 2        \* largest value of config.face.detector.skipFrames / skipTime
MaxBoxes == 2       \* most boxes blazeface.getBoxes returns in one call
MaxGhost == 4       \* cap of the history counter sinceDetector

(* Number.MAX_SAFE_INTEGER is 2^53 - 1; the model keeps the largest integer
   TLC represents.  All that the code uses of it is that it is not below any
   skipFrames. *)
MAX_SAFE_INTEGER == 2147483647

Procs == {1, 2}     \* invocations of predict that can be in flight
Main == {1}         \* the one invocation of call-and-await sequencing

Faces == 1..MaxBoxes

----------------------------------------------------------------------------
(* Inputs *)

Configs ==
  [skipAllowed : BOOLEAN, skipFrames : {0, MaxSkip}, skipTime : {0, MaxSkip},
   meshEnabled : BOOLEAN, minConfidence : {0, 50}, irisEnabled : BOOLEAN,
   debug : BOOLEAN]

(* What blazeface.getBoxes resolves to: up to MaxBoxes boxes of distinct faces,
   in the detector's order.  confidence is in thousandths. *)
PossibleBox == [face : Faces, confidence : {905}]

RECURSIVE SeqsUpTo(_, _)
SeqsUpTo(S, n) ==
  IF n = 0 THEN {<<>>}
  ELSE LET shorter == SeqsUpTo(S, n - 1)
       IN shorter \cup {Append(s, x) : s \in {t \in shorter : Len(t) = n - 1}, x \in S}

DetectorOutputs ==
  {s \in SeqsUpTo(PossibleBox, MaxBoxes) :
     \A a, b \in 1..Len(s) : a # b => s[a].face # s[b].face}

(* confidence.data()[0] of the mesh model, in thousandths: scores that round
   down and up, clear of the .5 boundary where the float product is inexact *)
MeshScores == {494, 496, 995}

NullModel == [isNull |-> TRUE, modelUrl |-> FALSE, hasShape |-> FALSE, shape2 |-> 0]

(* What tf.loadGraphModel resolves to: no model, a model without modelUrl or
   input shape, and models whose input shape is fixed or dynamic (-1) *)
MeshModel == [isNull |-> FALSE, modelUrl |-> TRUE, hasShape |-> TRUE, shape2 |-> 192]

LoadResults ==
  {NullModel,
   [isNull |-> FALSE, modelUrl |-> FALSE, hasShape |-> FALSE, shape2 |-> 0],
   MeshModel,
   [isNull |-> FALSE, modelUrl |-> TRUE, hasShape |-> TRUE, shape2 |-> -1]}

(* predict reads of the model only whether it is null *)
LoadResultsOfPredict == {NullModel, MeshModel}

----------------------------------------------------------------------------
(* Pure parts of predict *)

(* Math.round(100 * x) / 100, x in thousandths, result in hundredths *)
Round100Truncates(x) == x \div 10
Round100(x) == (x + 5) \div 10

(* line 32: (config.face.detector?.skipTime || 0) > (now() - lastTime) *)
SkipTimeStrictOff(cfg, now, last) == cfg.skipTime >= now - last
SkipTime(cfg, now, last) == cfg.skipTime > now - last

(* line 33: skipped < (config.face.detector?.skipFrames || 0) *)
SkipFrameOffByOne(cfg, skp) == skp <= cfg.skipFrames
SkipFrame(cfg, skp) == skp < cfg.skipFrames

(* line 34: the condition under which the detector is run *)
RunDetectorIgnoresEmpty(cfg, now, last, skp, cache) ==
  ~cfg.skipAllowed \/ ~SkipTime(cfg, now, last) \/ ~SkipFrame(cfg, skp)
RunDetector(cfg, now, last, skp, cache) ==
  ~cfg.skipAllowed \/ ~SkipTime(cfg, now, last) \/ ~SkipFrame(cfg, skp) \/ Len(cache) = 0

(* line 45: squarifyBox(enlargeBox(scaleBoxCoordinates(box, scaleFactor), sqrt(enlargeFact))) *)
DetectorBox(possible) ==
  [origin |-> "detector", face |-> possible.face, confidence |-> possible.confidence]

(* line 105: squarifyBox(enlargeBox(calculateLandmarksBoundingBox(face.mesh), enlargeFact));
   the box around the mesh carries no detector confidence *)
MeshBox(box) == [origin |-> "mesh", face |-> box.face, confidence |-> 0]

(* line 98: config.face.detector?.minConfidence || 1, in hundredths *)
Threshold(cfg) == IF cfg.minConfidence = 0 THEN 100 ELSE cfg.minConfidence

(* line 98: low confidence in detected mesh *)
LowConfidenceInclusive(cfg, faceScore) == faceScore <= Threshold(cfg)
LowConfidenceNoDefault(cfg, faceScore) == faceScore < cfg.minConfidence
LowConfidence(cfg, faceScore) == faceScore < Threshold(cfg)

(* line 37: boxCache = [] *)
EmptyCacheKeeps(cache) == cache
EmptyCache(cache) == <<>>

(* line 122: boxCache = [...newCache] *)
ResetCacheAppends(cache, newCache) == cache \o newCache
ResetCache(cache, newCache) == newCache

(* lines 59-69 and 71-77: init face result, crop tensor, box score *)
InitFace(id, box) ==
  [id |-> id, mesh |-> "empty", meshRaw |-> "empty", box |-> "zero", boxRaw |-> "zero",
   score |-> 0, boxScore |-> Round100(box.confidence), faceScore |-> 0,
   annotations |-> "empty", tensor |-> "crop"]

(* lines 78-88: mesh not enabled, results from the detector only *)
DetectorFace(face, box) ==
  [face EXCEPT !.box = "clamped", !.boxRaw = "raw",
               !.boxScore = Round100(box.confidence), !.score = Round100(box.confidence),
               !.mesh = "landmarks", !.meshRaw = "landmarks", !.annotations = "blazeface"]

(* lines 102-108: the accepted mesh *)
MeshFace(face, augmented) ==
  [face EXCEPT !.mesh = IF augmented THEN "mesh+iris" ELSE "mesh",
               !.meshRaw = IF augmented THEN "mesh+iris" ELSE "mesh",
               !.annotations = "mesh", !.box = "clamped", !.boxRaw = "raw",
               !.score = face.faceScore]

----------------------------------------------------------------------------
(* An invocation of predict: its locals, and history fields (h...) that record
   what the invocation did *)

Idle ==
  [pc |-> "idle", possible |-> <<>>, k |-> 0,
   i |-> 0, id |-> 0, faces |-> <<>>, newCache |-> <<>>,
   box |-> [origin |-> "detector", face |-> 1, confidence |-> 0],
   face |-> InitFace(0, [confidence |-> 0]),
   hDetector |-> FALSE, hProcessed |-> <<>>, hScores |-> <<>>, hRaw |-> <<>>,
   hIris |-> <<>>, hLogs |-> {}, hLive |-> {}, hTwice |-> FALSE]

(* Tensors, by name and by the box or face they belong to.  hLive holds the
   tensors the invocation received or created and has not disposed; hTwice
   records a dispose of a tensor that was not live. *)
BoxTensors(n) ==
  UNION {{<<"startPoint", j>>, <<"endPoint", j>>, <<"landmarks", j>>} : j \in 1..n}

(* line 92: model.execute(face.tensor) *)
ExecuteTensors(id) == {<<"contours", id>>, <<"confidence", id>>, <<"contourCoords", id>>}

Dispose(l, tensors) ==
  [l EXCEPT !.hLive = @ \ tensors, !.hTwice = @ \/ ~(tensors \subseteq l.hLive)]

(* line 47: possibleBoxes.boxes.forEach(... tf.dispose([startPoint, endPoint, landmarks])) *)
DisposeBoxesLeaksLandmarks(l) ==
  Dispose(l, {t \in BoxTensors(Len(l.possible)) : t[1] # "landmarks"})
DisposeBoxes(l) == Dispose(l, BoxTensors(Len(l.possible)))

(* lines 95-97: tf.reshape, then tf.dispose([contourCoords, coordsReshaped, confidence, contours]) *)
ReshapeAndDisposeLeaksContours(l) ==
  Dispose([l EXCEPT !.hLive = @ \cup {<<"coordsReshaped", l.face.id>>}],
          (ExecuteTensors(l.face.id) \ {<<"contours", l.face.id>>})
            \cup {<<"coordsReshaped", l.face.id>>})
ReshapeAndDispose(l) ==
  Dispose([l EXCEPT !.hLive = @ \cup {<<"coordsReshaped", l.face.id>>}],
          ExecuteTensors(l.face.id) \cup {<<"coordsReshaped", l.face.id>>})

(* lines 55-121, from iteration l.i up to the next await or the end of the loop.
   boxCache.length and boxCache[i] are read from the module-level list. *)
RECURSIVE RunLoop(_, _, _, _)
RunLoop(l, cfg, cache, mdl) ==
  IF l.i >= Len(cache)
  THEN [l EXCEPT !.pc = "done"]
  ELSE LET box == cache[l.i + 1]
           face == InitFace(l.id, box)
           next == [l EXCEPT !.i = @ + 1, !.id = @ + 1,
                             !.hProcessed = Append(@, box),
                             !.hLive = @ \cup {<<"face", l.id>>}]
       IN IF ~cfg.meshEnabled
          THEN RunLoop([next EXCEPT !.faces = Append(@, DetectorFace(face, box)),
                                    !.hScores = Append(@, -1)], cfg, cache, mdl)
          ELSE IF mdl.isNull
          THEN RunLoop([next EXCEPT !.faces = Append(@, face),
                                    !.hScores = Append(@, -1),
                                    !.hLogs = IF cfg.debug
                                              THEN @ \cup {"model is not loaded"}
                                              ELSE @], cfg, cache, mdl)
          ELSE [next EXCEPT !.pc = "awaitConfidence", !.box = box, !.face = face,
                            !.hLive = @ \cup ExecuteTensors(l.id)]

(* lines 102-109: mesh, annotations, the box redefined around the mesh, and
   the push to newCache; line 120 pushes the face *)
Accept(l, augmented) ==
  [l EXCEPT !.faces = Append(@, MeshFace(l.face, augmented)),
            !.newCache = Append(@, MeshBox(l.box))]

(* line 120 for a box whose mesh was rejected *)
RejectDropsFace(l) == l
RejectLogs(l) ==
  [l EXCEPT !.faces = Append(@, l.face), !.hLogs = @ \cup {"low confidence"}]
Reject(l) == [l EXCEPT !.faces = Append(@, l.face)]

(* line 99: box.confidence = face.faceScore writes to the box object, which is
   element l.i of the cached list unless the list was replaced meanwhile *)
ResetConfidence(cache, l, faceScore) ==
  IF l.i <= Len(cache) /\ cache[l.i] = l.box
  THEN [cache EXCEPT ![l.i].confidence = faceScore * 10]
  ELSE cache

(* line 122 once the loop is over *)
CacheAfter(l, cache) == IF l.pc = "done" THEN ResetCache(cache, l.newCache) ELSE cache

Returned(p) == inv[p].pc \in {"idle", "done"}

----------------------------------------------------------------------------
(* predict: lines 29-35 up to the await of blazeface.getBoxes, or lines 29-34,
   50 and the loop when the detector is skipped *)
Call(p) ==
  /\ Returned(p)
  /\ LET run == RunDetector(config, clock, lastTime, skipped, boxCache)
         l0 == [Idle EXCEPT !.hDetector = run]
         l1 == RunLoop(l0, config, boxCache, model)
     IN IF run
        THEN /\ inv' = [inv EXCEPT ![p] = [l0 EXCEPT !.pc = "awaitGetBoxes"]]
             /\ sinceDetector' = 0
             /\ UNCHANGED <<boxCache, skipped>>
        ELSE /\ skipped' = skipped + 1
             /\ inv' = [inv EXCEPT ![p] = l1]
             /\ boxCache' = CacheAfter(l1, boxCache)
             /\ sinceDetector' = IF sinceDetector < MaxGhost THEN sinceDetector + 1
                                 ELSE sinceDetector
  /\ UNCHANGED <<model, inputSize, lastTime, clock, config, ld>>

(* lines 35-40: getBoxes resolved; lastTime, the emptied cache, and the first
   await of the extraction loop (lines 47-48 and the face loop when there is
   no box) *)
AfterGetBoxes(p, out) ==
  /\ inv[p].pc = "awaitGetBoxes"
  /\ lastTime' = clock
  /\ IF Len(out) > 0
     THEN /\ inv' = [inv EXCEPT ![p] = [@ EXCEPT !.pc = "awaitData", !.possible = out, !.k = 1,
                                                 !.hLive = BoxTensors(Len(out))]]
          /\ boxCache' = EmptyCache(boxCache)
          /\ UNCHANGED skipped
     ELSE LET l1 == RunLoop(inv[p], config, EmptyCache(boxCache), model)
          IN /\ skipped' = 0
             /\ inv' = [inv EXCEPT ![p] = l1]
             /\ boxCache' = CacheAfter(l1, EmptyCache(boxCache))
  /\ UNCHANGED <<model, inputSize, clock, config, ld, sinceDetector>>

(* lines 40-45: the data of box k arrived and the box is pushed to the
   module-level cache; after the last box, lines 47-48 and the face loop *)
AfterData(p) ==
  /\ inv[p].pc = "awaitData"
  /\ LET l == inv[p]
         pushed == Append(boxCache, DetectorBox(l.possible[l.k]))
         l1 == RunLoop(DisposeBoxes(l), config, pushed, model)
     IN IF l.k < Len(l.possible)
        THEN /\ inv' = [inv EXCEPT ![p] = [l EXCEPT !.k = @ + 1]]
             /\ boxCache' = pushed
             /\ UNCHANGED skipped
        ELSE /\ skipped' = 0
             /\ inv' = [inv EXCEPT ![p] = l1]
             /\ boxCache' = CacheAfter(l1, pushed)
  /\ UNCHANGED <<model, inputSize, lastTime, clock, config, ld, sinceDetector>>

(* lines 93-101: the confidence of the mesh arrived; the low-confidence branch,
   or the accepted branch up to the await of iris.augmentIris *)
AfterConfidence(p, raw) ==
  /\ inv[p].pc = "awaitConfidence"
  /\ LET faceScore == Round100(raw)
         l == ReshapeAndDispose([inv[p] EXCEPT !.face.faceScore = faceScore,
                                               !.hScores = Append(@, faceScore),
                                               !.hRaw = Append(@, raw)])
     IN IF LowConfidence(config, faceScore)
        THEN LET cache == ResetConfidence(boxCache, l, faceScore)
                 l1 == RunLoop(Reject(l), config, cache, model)
             IN /\ inv' = [inv EXCEPT ![p] = l1]
                /\ boxCache' = CacheAfter(l1, cache)
        ELSE IF config.irisEnabled
        THEN /\ inv' = [inv EXCEPT ![p] = [l EXCEPT !.pc = "awaitIris",
                                                    !.hIris = Append(@, l.face.id)]]
             /\ UNCHANGED boxCache
        ELSE LET l1 == RunLoop(Accept(l, FALSE), config, boxCache, model)
             IN /\ inv' = [inv EXCEPT ![p] = l1]
                /\ boxCache' = CacheAfter(l1, boxCache)
  /\ UNCHANGED <<model, inputSize, skipped, lastTime, clock, config, ld, sinceDetector>>

(* lines 101-109: the augmented coordinates arrived *)
AfterIris(p) ==
  /\ inv[p].pc = "awaitIris"
  /\ LET l1 == RunLoop(Accept(inv[p], TRUE), config, boxCache, model)
     IN /\ inv' = [inv EXCEPT ![p] = l1]
        /\ boxCache' = CacheAfter(l1, boxCache)
  /\ UNCHANGED <<model, inputSize, skipped, lastTime, clock, config, ld, sinceDetector>>

(* time passes *)
Tick ==
  /\ clock < MaxTime
  /\ clock' = clock + 1
  /\ UNCHANGED <<boxCache, model, inputSize, skipped, lastTime, config, inv, ld, sinceDetector>>

----------------------------------------------------------------------------
(* load *)

(* lines 133-134 *)
InputSizeKeepsMinusOne(m) == IF m.hasShape THEN m.shape2 ELSE 0
InputSize(m) ==
  LET size == IF m.hasShape THEN m.shape2 ELSE 0
  IN IF size = -1 THEN 64 ELSE size

(* calls counts the call's invocations of tf.loadGraphModel; reset tells,
   while the call awaits tf.loadGraphModel, that env.initial made it discard
   a loaded model at line 127 *)
LoadIdle == [pc |-> "idle", logs |-> {}, calls |-> 0, reset |-> FALSE]

(* lines 127-129 up to the await of tf.loadGraphModel, or lines 127-135 when
   the model is cached *)
Load(initial) ==
  /\ ld.pc # "loading"
  /\ LET m == IF initial THEN NullModel ELSE model
     IN /\ model' = m
        /\ IF m.isNull
           THEN /\ ld' = [pc |-> "loading", logs |-> {}, calls |-> 1,
                          reset |-> initial /\ ~model.isNull]
                /\ UNCHANGED inputSize
           ELSE /\ ld' = [pc |-> "returned", calls |-> 0, reset |-> FALSE,
                          logs |-> IF config.debug THEN {"cached model"} ELSE {}]
                /\ inputSize' = InputSize(m)
  /\ UNCHANGED <<boxCache, skipped, lastTime, clock, config, inv, sinceDetector>>

(* lines 129-135: tf.loadGraphModel resolved to m.  model.inputs of a null
   model throws a TypeError at line 133 *)
AfterLoadGraphModel(m) ==
  /\ ld.pc = "loading"
  /\ model' = m
  /\ LET logs == IF m.isNull \/ ~m.modelUrl THEN {"load model failed"}
                 ELSE IF config.debug THEN {"load model"} ELSE {}
     IN IF m.isNull
        THEN /\ ld' = [ld EXCEPT !.pc = "threw", !.logs = logs, !.reset = FALSE]
             /\ UNCHANGED inputSize
        ELSE /\ ld' = [ld EXCEPT !.pc = "returned", !.logs = logs, !.reset = FALSE]
             /\ inputSize' = InputSize(m)
  /\ UNCHANGED <<boxCache, skipped, lastTime, clock, config, inv, sinceDetector>>

----------------------------------------------------------------------------
(* Specifications *)

Init ==
  /\ boxCache = <<>>
  /\ model = NullModel
  /\ inputSize = 0
  /\ skipped = MAX_SAFE_INTEGER
  /\ lastTime = 0
  /\ clock = 0
  /\ config \in Configs
  /\ inv = [p \in Procs |-> Idle]
  /\ ld = LoadIdle
  /\ sinceDetector = 0

(* Call-and-await sequencing: one caller, which awaits each predict and each
   load before it makes the next call *)
AwaitedCall == \E p \in Main : ld.pc # "loading" /\ Call(p)
AwaitedLoad == \E initial \in BOOLEAN : (\A p \in Procs : Returned(p)) /\ Load(initial)
GetBoxes == \E p \in Procs, out \in DetectorOutputs : AfterGetBoxes(p, out)
Data == \E p \in Procs : AfterData(p)
Confidence == \E p \in Procs, raw \in MeshScores : AfterConfidence(p, raw)
Iris == \E p \in Procs : AfterIris(p)
LoadGraphModel == \E m \in LoadResultsOfPredict : AfterLoadGraphModel(m)
AnyLoadGraphModel == \E m \in LoadResults : AfterLoadGraphModel(m)

Next ==
  \/ AwaitedCall
  \/ AwaitedLoad
  \/ GetBoxes
  \/ Data
  \/ Confidence
  \/ Iris
  \/ LoadGraphModel
  \/ Tick

Spec == Init /\ [][Next]_vars

(* load alone, with every result of tf.loadGraphModel *)
NextLoad ==
  \/ AwaitedLoad
  \/ AnyLoadGraphModel

SpecLoad == Init /\ [][NextLoad]_vars

(* Callers that do not await: a predict call can start while another
   invocation is suspended at one of its awaits.  The behaviours start after
   an awaited load of the mesh model, with skipping and the mesh enabled and
   the iris model disabled, and are short enough for the clock not to advance. *)
ConcurrentConfigs ==
  {cfg \in Configs : /\ cfg.skipAllowed /\ cfg.meshEnabled /\ ~cfg.debug
                     /\ cfg.skipFrames = MaxSkip /\ cfg.skipTime = MaxSkip
                     /\ cfg.minConfidence = 50 /\ ~cfg.irisEnabled}

InitConcurrent ==
  /\ boxCache = <<>>
  /\ model = MeshModel
  /\ inputSize = InputSize(MeshModel)
  /\ skipped = MAX_SAFE_INTEGER
  /\ lastTime = 0
  /\ clock = 0
  /\ config \in ConcurrentConfigs
  /\ inv = [p \in Procs |-> Idle]
  /\ ld = [pc |-> "returned", logs |-> {}, calls |-> 1, reset |-> FALSE]
  /\ sinceDetector = 0

(* Each caller makes one call, and neither awaits the other *)
ConcurrentCall == \E p \in Procs : inv[p].pc = "idle" /\ Call(p)

NextConcurrent ==
  \/ ConcurrentCall
  \/ GetBoxes
  \/ Data
  \/ Confidence

SpecConcurrent == InitConcurrent /\ [][NextConcurrent]_vars

----------------------------------------------------------------------------
(* Vocabulary of the properties *)

(* a step of predict taken by caller p from its call: the detector is
   invoked, or the frame is skipped *)
CallStep(p) ==
  /\ Returned(p)
  /\ <<skipped, boxCache, inv>>' # <<skipped, boxCache, inv>>
InvokesDetector(p) == CallStep(p) /\ inv'[p].pc = "awaitGetBoxes"
SkipsDetector(p) == CallStep(p) /\ inv'[p].pc # "awaitGetBoxes"

(* the loop of a detector-running call has started, so line 48 was executed *)
PastDetector(p) == inv[p].hDetector /\ inv[p].pc \in {"awaitConfidence", "awaitIris", "done"}

(* the mesh model was executed for the j-th processed box of l *)
Scored(l, j) == j <= Len(l.hScores) /\ l.hScores[j] >= 0
BelowThreshold(l, j) == Scored(l, j) /\ l.hScores[j] < Threshold(config)

(* the boxes of l accepted by the mesh, redefined around the mesh, in
   processing order *)
KeptBoxes(l) ==
  LET kept == SelectSeq([j \in 1..Len(l.hScores) |-> j],
                        LAMBDA j : l.hScores[j] >= Threshold(config))
  IN [n \in 1..Len(kept) |->
        [origin |-> "mesh", face |-> l.hProcessed[kept[n]].face, confidence |-> 0]]

OwnDetectorBoxes(l) ==
  [j \in 1..Len(l.possible) |->
     [origin |-> "detector", face |-> l.possible[j].face,
      confidence |-> l.possible[j].confidence]]

Elements(seq) == {seq[j] : j \in 1..Len(seq)}

----------------------------------------------------------------------------
(* C1: with a fixed config, at most config.face.detector.skipFrames predict
   calls skip the detector between two consecutive invocations of it, so it
   is invoked in every window of skipFrames + 1 calls, and on every call when
   skipFrames is 0. *)
C1_ReuseAtMostSkipFrames == sinceDetector <= config.skipFrames

C1_Witness ==
  /\ config.skipFrames = MaxSkip
  /\ sinceDetector = MaxSkip
  /\ inv[1].pc = "done"

(* C2: after a predict with the mesh enabled, boxCache holds exactly one
   mesh-derived box for each processed box whose rounded faceScore met the
   threshold, in processing order; a box below the threshold is not in it,
   and it never holds more boxes than were processed. *)
C2_LowConfidenceDiscarded ==
  \A p \in Procs :
    (inv[p].pc = "done" /\ config.meshEnabled) =>
      /\ boxCache = KeptBoxes(inv[p])
      /\ Len(boxCache) <= Len(inv[p].hProcessed)
      /\ \A j \in 1..Len(inv[p].hProcessed) :
           BelowThreshold(inv[p], j) =>
             \A b \in Elements(boxCache) : b.face # inv[p].hProcessed[j].face

C2_Witness ==
  /\ inv[1].pc = "done"
  /\ Len(inv[1].hProcessed) = 2
  /\ BelowThreshold(inv[1], 1)
  /\ Scored(inv[1], 2) /\ inv[1].hScores[2] = Threshold(config)
  /\ Len(boxCache) = 1

(* C3: a predict call skips the detector only if now() - lastTime is strictly
   less than config.face.detector.skipTime (so never when skipTime is 0), and
   lastTime is written only by a call that runs the detector. *)
C3_ReuseBoundedByTime ==
  [][/\ \A p \in Main : SkipsDetector(p) => clock - lastTime < config.skipTime
     /\ lastTime' # lastTime => \E p \in Procs : inv[p].pc = "awaitGetBoxes" /\ lastTime' = clock
    ]_vars

C3_Witness ==
  /\ inv[1].pc = "awaitConfidence"
  /\ ~inv[1].hDetector
  /\ clock - lastTime = config.skipTime - 1
  /\ lastTime > 0

(* C4: in a predict call that runs the detector the boxes processed are one
   per box the detector returned, in detector order, and none of them was in
   boxCache before the call; in every call the final boxCache is the newly
   built list, not the previous list with elements appended. *)
C4_ReplacedWholesale ==
  /\ [](\A p \in Procs :
          inv[p].pc = "done" =>
            /\ inv[p].hDetector => inv[p].hProcessed = OwnDetectorBoxes(inv[p])
            /\ boxCache = inv[p].newCache
            /\ \A b \in Elements(boxCache) : b.origin = "mesh")
  /\ [][\A p \in Procs :
          (inv[p].pc = "awaitGetBoxes" /\ inv'[p].pc # "awaitGetBoxes") =>
            Elements(boxCache') \cap Elements(boxCache) = {}]_vars

C4_Witness ==
  /\ inv[1].pc = "awaitData"
  /\ Len(inv[1].possible) = MaxBoxes
  /\ inv[1].k = MaxBoxes
  /\ Len(boxCache) = MaxBoxes - 1
  /\ skipped = MaxSkip

(* C5: whatever the interleaving of predict invocations at their awaits, no
   other invocation touches boxCache, skipped or lastTime while one is between
   its first read and its final write, so the cache an invocation iterates is
   the one it computed itself. *)
C5_IteratesOwnCache ==
  \A p \in Procs :
    (inv[p].pc = "done" /\ inv[p].hDetector) =>
      inv[p].hProcessed = OwnDetectorBoxes(inv[p])

(* C6: the FaceResult of a processed box whose faceScore is below the
   threshold keeps mesh, meshRaw and annotations empty, box and boxRaw zero
   and score 0 (id, tensor, boxScore and faceScore are set), and the iris
   augmentation is not invoked for it. *)
C6_NoGeometryWhenDiscarded ==
  \A p \in Procs :
    \A j \in 1..Len(inv[p].faces) :
      BelowThreshold(inv[p], j) =>
        /\ inv[p].faces[j] =
             [id |-> j - 1, mesh |-> "empty", meshRaw |-> "empty", box |-> "zero",
              boxRaw |-> "zero", score |-> 0, annotations |-> "empty",
              boxScore |-> inv[p].faces[j].boxScore, faceScore |-> inv[p].hScores[j],
              tensor |-> "crop"]
        /\ j - 1 \notin Elements(inv[p].hIris)

C6_Witness ==
  /\ inv[1].pc = "done"
  /\ config.irisEnabled
  /\ Len(inv[1].faces) = 2
  /\ BelowThreshold(inv[1], 2)
  /\ inv[1].hIris = <<0>>

(* C7 as claimed: predict emits a log message when the faceScore of a
   processed box falls below the threshold. *)
C7_LogsLowConfidence ==
  \A p \in Procs :
    (\E j \in 1..Len(inv[p].hScores) : BelowThreshold(inv[p], j)) => inv[p].hLogs # {}

(* C7 amended: predict emits no log message for a box whose faceScore falls
   below the threshold; the only message of predict is the one of a box
   processed with the mesh enabled, no model loaded and config.debug set. *)
C7_NoLogOnLowConfidence ==
  \A p \in Procs :
    /\ (\E j \in 1..Len(inv[p].hScores) : BelowThreshold(inv[p], j)) => inv[p].hLogs = {}
    /\ inv[p].hLogs \subseteq {"model is not loaded"}
    /\ inv[p].hLogs # {} => config.debug /\ config.meshEnabled

C7_Witness ==
  /\ inv[1].pc = "done"
  /\ config.debug
  /\ BelowThreshold(inv[1], 1)
  /\ inv[1].hLogs = {}

(* C8: when tf.loadGraphModel yields no model or a model without modelUrl,
   load logs 'load model failed' whatever config.debug is, has called
   tf.loadGraphModel once, and completes by returning the model. *)
C8_LoadFailureOnlyLogs ==
  (ld.calls = 1 /\ ld.pc # "loading" /\ (model.isNull \/ ~model.modelUrl)) =>
    /\ "load model failed" \in ld.logs
    /\ ld.pc = "returned"

(* C9: a predict call with the mesh disabled, or with the mesh enabled and no
   model loaded, leaves boxCache empty whatever the detector returned, and the
   predict call that follows it runs the detector; with the mesh disabled no
   call ever skips the detector. *)
C9_CacheNeedsAcceptedMesh ==
  /\ [](\A p \in Procs :
          (inv[p].pc = "done"
             /\ (~config.meshEnabled
                   \/ \A j \in 1..Len(inv[p].hProcessed) : ~Scored(inv[p], j))) =>
            boxCache = <<>>)
  /\ [](~config.meshEnabled =>
          /\ sinceDetector = 0
          /\ \A p \in Procs : inv[p].pc # "idle" => inv[p].hDetector)
  /\ [][\A p \in Main :
          (/\ CallStep(p)
           /\ inv[p].pc = "done"
           /\ \A j \in 1..Len(inv[p].hProcessed) : ~Scored(inv[p], j)) =>
            InvokesDetector(p)]_vars

C9_Witness ==
  /\ inv[1].pc = "awaitGetBoxes"
  /\ config.meshEnabled /\ config.skipAllowed
  /\ config.skipFrames = MaxSkip /\ config.skipTime = MaxSkip
  /\ model.isNull
  /\ skipped = 0
  /\ clock = lastTime /\ lastTime > 0

(* C10: if config.skipAllowed is false or boxCache is empty when predict is
   called, the detector is invoked whatever skipped, lastTime, skipFrames and
   skipTime are, and so it is on the first call; a call that runs the detector
   resets skipped to 0 and a call that skips it adds exactly 1 to skipped. *)
C10_NeverSkippedOnMissingData ==
  /\ [][\A p \in Main :
          CallStep(p) =>
            /\ (~config.skipAllowed \/ Len(boxCache) = 0) => InvokesDetector(p)
            /\ inv[p].pc = "idle" => InvokesDetector(p)
            /\ InvokesDetector(p) => inv'[p].hDetector /\ skipped' = skipped
            /\ SkipsDetector(p) => ~inv'[p].hDetector /\ skipped' = skipped + 1]_vars
  /\ [](\A p \in Procs : PastDetector(p) => skipped = 0)

C10_Witness ==
  /\ inv[1].pc = "awaitGetBoxes"
  /\ config.skipAllowed
  /\ config.skipFrames = MaxSkip /\ config.skipTime = MaxSkip
  /\ skipped = 0
  /\ clock - lastTime < config.skipTime
  /\ boxCache = <<>>
  /\ ~model.isNull

(* C11: predict returns one FaceResult per box processed in the call, in
   processing order, with ids 0, 1, ..., n-1: the detector's boxes on a
   refresh call, the cached boxes on a reuse call, boxes rejected by the mesh
   or processed without a model included, so the faces can outnumber the
   boxes left in the cache. *)
C11_OneFacePerProcessedBox ==
  /\ [](\A p \in Procs :
          /\ \A j \in 1..Len(inv[p].faces) : inv[p].faces[j].id = j - 1
          /\ inv[p].pc = "done" =>
               /\ Len(inv[p].faces) = Len(inv[p].hProcessed)
               /\ inv[p].hDetector => Len(inv[p].faces) = Len(inv[p].possible)
               /\ Len(boxCache) <= Len(inv[p].faces))
  /\ [][\A p \in Main :
          (/\ inv'[p].pc = "done"
           /\ ~inv'[p].hDetector
           /\ CallStep(p) \/ ~Returned(p)) =>
            /\ Len(inv'[p].faces) = Len(boxCache)
            /\ \A j \in 1..Len(boxCache) :
                 inv'[p].hProcessed[j].face = boxCache[j].face]_vars

C11_Witness ==
  /\ inv[1].pc = "done"
  /\ ~inv[1].hDetector
  /\ Len(inv[1].faces) = MaxBoxes
  /\ BelowThreshold(inv[1], 1)
  /\ Len(boxCache) = MaxBoxes - 1

(* C12: a processed box is accepted exactly when its faceScore rounded to two
   decimals is at least the threshold, which is minConfidence when that is set
   and non-zero and 1 otherwise; with minConfidence unset every box whose
   rounded score is below 1.00 is rejected, and a box whose rounded score
   equals the threshold is accepted. *)
C12_ThresholdOnRoundedScore ==
  \A p \in Procs :
    \A j \in 1..Len(inv[p].faces) :
      Scored(inv[p], j) =>
        LET rounded == (inv[p].hRaw[j] + 5) \div 10
            threshold == IF config.minConfidence = 0 THEN 100 ELSE config.minConfidence
        IN /\ inv[p].faces[j].faceScore = rounded
           /\ inv[p].faces[j].mesh # "empty" <=> rounded >= threshold
           /\ inv[p].pc = "done" =>
                (rounded >= threshold <=>
                   \E b \in Elements(boxCache) : b.face = inv[p].hProcessed[j].face)

C12_Witness ==
  /\ inv[1].pc = "done"
  /\ config.minConfidence = 0
  /\ inv[1].hRaw = <<496, 995>>
  /\ inv[1].faces[1].mesh = "empty"
  /\ inv[1].faces[2].mesh # "empty"
  /\ Len(boxCache) = 1

(* C13: in a detector-running call the startPoint, endPoint and landmarks
   tensors of every detector box stay alive while the data is extracted and
   are then disposed exactly once; the contours, confidence, contourCoords and
   coordsReshaped tensors of every box the mesh model was executed for are
   disposed exactly once, on the low-confidence and the accepted branch
   alike; when predict returns, the only tensors it leaves undisposed are the
   face.tensor of the returned faces. *)
C13_TensorsReleased ==
  \A p \in Procs :
    LET l == inv[p]
    IN /\ ~l.hTwice
       /\ l.pc = "awaitData" =>
            \A j \in 1..Len(l.possible) :
              {<<"startPoint", j>>, <<"endPoint", j>>, <<"landmarks", j>>} \subseteq l.hLive
       /\ (l.hDetector /\ l.pc \in {"awaitConfidence", "awaitIris", "done"}) =>
            \A j \in 1..Len(l.possible) :
              {<<"startPoint", j>>, <<"endPoint", j>>, <<"landmarks", j>>} \cap l.hLive = {}
       /\ \A j \in 1..Len(l.hScores) :
            Scored(l, j) =>
              {<<"contours", j - 1>>, <<"confidence", j - 1>>, <<"contourCoords", j - 1>>,
               <<"coordsReshaped", j - 1>>} \cap l.hLive = {}
       /\ l.pc = "done" => l.hLive = {<<"face", j - 1>> : j \in 1..Len(l.faces)}

C13_Witness ==
  /\ inv[1].pc = "done"
  /\ inv[1].hDetector
  /\ Len(inv[1].possible) = MaxBoxes
  /\ BelowThreshold(inv[1], 1)
  /\ inv[1].faces[2].mesh # "empty"
  /\ inv[1].hLive = {<<"face", 0>>, <<"face", 1>>}

(* C14: in a sequence of awaited load calls tf.loadGraphModel is invoked only
   by a call that finds the module's model null or env.initial true, and at
   most once by it; any other call returns the model already loaded without
   reloading it.  After every load call that returns, inputSize is the
   model's first input shape[2], or 0 when the shape is absent, with -1
   replaced by 64. *)
C14_LoadCachesModel ==
  /\ [][(ld.pc # "loading" /\ ld' # ld) =>
          /\ ld'.calls = 1 <=> (model.isNull \/ ld'.reset)
          /\ ld'.calls = 1 => ld'.pc = "loading"
          /\ ld'.calls = 0 =>
               /\ ld'.pc = "returned"
               /\ model' = model
               /\ ld'.logs \subseteq {"cached model"}]_vars
  /\ [][ld.pc = "loading" => ld'.calls = ld.calls]_vars
  /\ [](ld.pc = "returned" =>
          /\ ~model.isNull
          /\ inputSize = IF ~model.hasShape THEN 0
                         ELSE IF model.shape2 = -1 THEN 64 ELSE model.shape2
          /\ inputSize # -1)

C14_Witness ==
  /\ ld.pc = "returned"
  /\ ld.calls = 0
  /\ model.shape2 = -1
  /\ inputSize = 64

====
